---- MODULE Spec2Model ----
(***************************************************************************)
(* A model of the flattened-device-tree reader of firmware-utils           *)
(* (src/fdt.c, src/fdt.h): the header validator get_fdt_totalsize, the     *)
(* blob locator find_fdt_offset, the path matcher check_search_target and  *)
(* the tag-stream walker enum_fdt_nodes driven by get_fdt_prop.            *)
(*                                                                         *)
(* Data representation.                                                    *)
(*   - A uint32_t is a pair <<hi, lo>> of 16-bit limbs, so that the full   *)
(*     32-bit range and its wrap-around are kept.                          *)
(*   - A byte is a number 0..255; a 32-bit word of the image is the        *)
(*     4-tuple of its bytes in memory order.                               *)
(*   - A pointer into the struct block is a byte offset from ctx->tree;    *)
(*     ctx->pos is kept as a word offset (it is a uint32_t pointer).       *)
(***************************************************************************)
EXTENDS Integers, Sequences, FiniteSets, TLC

VARIABLES
    \* ---- header validator (get_fdt_totalsize) ----
    hdr,            \* the fdt_header_t fields, decoded by be32toh
    hcheck,         \* the "check" argument of the last call, or "none"
    hret,           \* the value returned by the last call
    \* ---- blob locator (find_fdt_offset) ----
    limage,         \* the bytes of the memory that starts at "image"
    lsize,          \* the "size" argument: the buffer is limage[1..lsize]
    lmax,           \* the "max_fdt_size" argument
    lpos,           \* the loop variable pos
    lpc,            \* "loop", "done" or "fault" ("idle": not in use)
    lret,           \* the returned offset
    loob,           \* TRUE once a byte outside [0, size) has been read
    \* ---- query (get_fdt_prop / enum_fdt_nodes / check_search_target) ----
    mem,            \* the words of the memory that starts at ctx->tree
    strings,        \* the bytes of the memory that starts at ctx->strings
    arg_path,       \* the "path" argument (a byte string, or NullStr)
    arg_name,       \* the "name" argument (a byte string, or NullStr)
    pc,             \* "start", "walk", "unwind", "done", "fault";
                    \* "match", "matched" for the matcher alone
    pos,            \* ctx->pos, as a word offset from ctx->tree
    depth,          \* ctx->depth
    path,           \* ctx->path[0..MAX_FDT_DEPTH], byte offsets of node names
    target_depth,   \* ctx->target_depth
    target_path,    \* ctx->target_path
    target_name,    \* ctx->target_name
    tree_size,      \* ctx->tree_size (bytes)
    show_tree,      \* ctx->show_tree
    res,            \* ctx->res: word offset of the matched property, or -1
    ret,            \* what get_fdt_prop returns: word offset, or -1 for NULL
    frames,         \* number of active invocations of enum_fdt_nodes
    mret,           \* the last value returned by check_search_target
    \* ---- observations of the run (history, not program state) ----
    maxRead,        \* highest word offset of the struct stream read so far
    nvisited,       \* number of tags enum_fdt_nodes has read
    nbegin,         \* number of BEGIN_NODE tags handled
    maxWrite,       \* highest index of ctx->path written so far, or -1
    errkind,        \* why the query ended: "none", "hdr", "path", ...
    toks            \* the records the struct stream was laid out from

hvars == <<hdr, hcheck, hret>>
lvars == <<limage, lsize, lmax, lpos, lpc, lret, loob>>
qvars == <<mem, strings, arg_path, arg_name, pc, pos, depth, path,
           target_depth, target_path, target_name, tree_size, show_tree,
           res, ret, frames, mret>>
ovars == <<maxRead, nvisited, nbegin, maxWrite, errkind, toks>>
vars == <<hvars, lvars, qvars, ovars>>

-----------------------------------------------------------------------------
(* 32-bit unsigned arithmetic on 16-bit limbs.                              *)

Limb == 256 * 256

U32(n) == <<n \div Limb, n % Limb>>

\* uint32_t addition: the sum modulo 2^32
Add32(a, b) ==
    LET lo == a[2] + b[2]
        hi == a[1] + b[1] + (lo \div Limb)
    IN  <<hi % Limb, lo % Limb>>

\* the carry out of the 32-bit addition: 1 iff the true sum is >= 2^32
Carry32(a, b) ==
    LET lo == a[2] + b[2]
        hi == a[1] + b[1] + (lo \div Limb)
    IN  hi \div Limb

Lt32(a, b) == a[1] < b[1] \/ (a[1] = b[1] /\ a[2] < b[2])
Le32(a, b) == a = b \/ Lt32(a, b)

\* the value of a uint32_t below 2^31, as an integer
ToInt(a) == a[1] * Limb + a[2]

\* be32toh of a word given by its four bytes in memory order
Be32(w) == <<w[1] * 256 + w[2], w[3] * 256 + w[4]>>

\* the four bytes, in memory order, of the big-endian encoding of a uint32_t
Word32(a) == <<a[1] \div 256, a[1] % 256, a[2] \div 256, a[2] % 256>>

FDT_MAGIC == <<53261, 65261>>          \* 0xd00dfeed
INT_MAX == <<32767, 65535>>          \* INT_MAX = 0x7fffffff
HdrSize == 40                          \* sizeof(fdt_header_t)

FDT_BEGIN_NODE == 1
FDT_END_NODE == 2
FDT_PROP == 3
FDT_NOP == 4
FDT_END == 9

MAX_FDT_DEPTH == 32

-----------------------------------------------------------------------------
(* get_fdt_totalsize                                                        *)

\* the struct-block containment tests of get_fdt_totalsize; TRUE = reject
StructBlockRejected(h) ==
    \/ Le32(h.off_dt_struct, U32(HdrSize))
    \/ ~Lt32(h.off_dt_struct, h.totalsize)
    \/ Lt32(h.totalsize, Add32(h.off_dt_struct, h.size_dt_struct))

\* the strings-block containment tests of get_fdt_totalsize; TRUE = reject
StringsBlockRejected(h) ==
    \/ Le32(h.off_dt_strings, U32(HdrSize))
    \/ ~Lt32(h.off_dt_strings, h.totalsize)
    \/ Lt32(h.totalsize, Add32(h.off_dt_strings, h.size_dt_strings))

\* get_fdt_totalsize(image, offset, check) on the decoded header h
get_fdt_totalsize(h, check) ==
    IF h.magic # FDT_MAGIC THEN -1
    ELSE IF ~Lt32(h.totalsize, INT_MAX)
            \/ Lt32(h.totalsize, Add32(U32(HdrSize), U32(128))) THEN -1
    ELSE IF ~check THEN ToInt(h.totalsize)
    ELSE IF h.version # U32(17) \/ h.last_comp_version # U32(16) THEN -1
    ELSE IF StructBlockRejected(h) THEN -1
    ELSE IF StringsBlockRejected(h) THEN -1
    ELSE IF h.boot_cpuid_phys # U32(0) THEN -1
    ELSE ToInt(h.totalsize)

\* how many bytes of the header get_fdt_totalsize reads before it returns
HdrBytesRead(h, check) ==
    IF h.magic # FDT_MAGIC THEN 4
    ELSE IF ~Lt32(h.totalsize, INT_MAX)
            \/ Lt32(h.totalsize, Add32(U32(HdrSize), U32(128))) THEN 8
    ELSE IF ~check THEN 8
    ELSE IF h.version # U32(17) \/ h.last_comp_version # U32(16) THEN 28
    ELSE HdrSize

-----------------------------------------------------------------------------
(* Values the variables of a component hold while another one runs.         *)

NullStr == <<-1>>                      \* a NULL char pointer

ZeroHdr ==
    [magic |-> U32(0), totalsize |-> U32(0), off_dt_struct |-> U32(0),
     off_dt_strings |-> U32(0), version |-> U32(0),
     last_comp_version |-> U32(0), boot_cpuid_phys |-> U32(0),
     size_dt_strings |-> U32(0), size_dt_struct |-> U32(0)]

HIdle == hdr = ZeroHdr /\ hcheck = "none" /\ hret = 0

LIdle ==
    /\ limage = <<>> /\ lsize = 0 /\ lmax = 0 /\ lpos = 0
    /\ lpc = "idle" /\ lret = 0 /\ loob = FALSE

QIdle ==
    /\ mem = <<>> /\ strings = <<>>
    /\ arg_path = NullStr /\ arg_name = NullStr
    /\ pc = "idle" /\ pos = 0 /\ depth = 0
    /\ path = [i \in 0..MAX_FDT_DEPTH |-> -1]
    /\ target_depth = 0 /\ target_path = NullStr /\ target_name = NullStr
    /\ tree_size = 0 /\ show_tree = FALSE
    /\ res = -1 /\ ret = -1 /\ frames = 0 /\ mret = 1

OIdle ==
    /\ maxRead = -1 /\ nvisited = 0 /\ nbegin = 0 /\ maxWrite = -1
    /\ errkind = "none" /\ toks = <<>>

-----------------------------------------------------------------------------
(* Specification SpecHdr: get_fdt_totalsize applied to headers whose        *)
(* fields range over values around every boundary the function tests,       *)
(* including sizes near 2^32.                                               *)

MaxU32 == <<Limb - 1, Limb - 1>>       \* 0xffffffff

HdrTotalSizes == {U32(167), U32(168), U32(1000), INT_MAX, MaxU32}
HdrOffsets == {U32(40), U32(41), U32(999), U32(1000)}
HdrSizes == {U32(0), U32(1), U32(959), U32(960), <<Limb - 1, Limb - 100>>, MaxU32}

HdrInit ==
    /\ hdr \in [magic : {FDT_MAGIC, U32(0)},
                totalsize : HdrTotalSizes,
                off_dt_struct : HdrOffsets,
                off_dt_strings : HdrOffsets,
                version : {U32(17), U32(16)},
                last_comp_version : {U32(16), U32(17)},
                boot_cpuid_phys : {U32(0), U32(1)},
                size_dt_strings : HdrSizes,
                size_dt_struct : HdrSizes]
    /\ hcheck = "none" /\ hret = 0
    /\ LIdle /\ QIdle /\ OIdle

\* get_fdt_totalsize(image, 0, true)
ValidateStrict ==
    /\ hcheck = "none"
    /\ hcheck' = "strict"
    /\ hret' = get_fdt_totalsize(hdr, TRUE)
    /\ UNCHANGED <<hdr, lvars, qvars, ovars>>

\* get_fdt_totalsize(image, 0, false)
ValidateLoose ==
    /\ hcheck = "none"
    /\ hcheck' = "loose"
    /\ hret' = get_fdt_totalsize(hdr, FALSE)
    /\ UNCHANGED <<hdr, lvars, qvars, ovars>>

HdrNext == ValidateStrict \/ ValidateLoose

SpecHdr == HdrInit /\ [][HdrNext]_vars

\* a block [off, off + size) lies wholly inside the blob, the sum being the
\* mathematical one
BlockInside(h, off, size) ==
    /\ Lt32(U32(HdrSize), off)
    /\ Lt32(off, h.totalsize)
    /\ Carry32(off, size) = 0
    /\ Le32(Add32(off, size), h.totalsize)

\* C4: whenever strict validation accepts a header, the struct block and the
\* strings block lie wholly inside the blob, off + size being the true
\* (non-wrapping) sum.
C4_AcceptedBlocksInside ==
    (hcheck = "strict" /\ hret > 0) =>
        /\ BlockInside(hdr, hdr.off_dt_struct, hdr.size_dt_struct)
        /\ BlockInside(hdr, hdr.off_dt_strings, hdr.size_dt_strings)

-----------------------------------------------------------------------------
(* find_fdt_offset                                                          *)

\* A size_t is a sequence of four 16-bit limbs, most significant first.
SizeT(n) == <<0, 0, 0, n>>

RECURSIVE SubLimbs(_, _, _, _)
\* limbs 1..i of a - b - borrow, modulo 2^(16 i)
SubLimbs(a, b, i, borrow) ==
    IF i = 0 THEN <<>>
    ELSE LET d == a[i] - b[i] - borrow
         IN  SubLimbs(a, b, i - 1, IF d < 0 THEN 1 ELSE 0) \o <<d % Limb>>

\* size_t subtraction: the difference modulo 2^64
SubSizeT(a, b) == SubLimbs(a, b, 4, 0)

RECURSIVE LtLimbs(_, _, _)
LtLimbs(a, b, i) ==
    IF i > Len(a) THEN FALSE
    ELSE IF a[i] # b[i] THEN a[i] < b[i]
    ELSE LtLimbs(a, b, i + 1)

LtSizeT(a, b) == LtLimbs(a, b, 1)

\* the loop bound size - sizeof(fdt_header_t) - 8, computed in size_t
LocBound(size) == SubSizeT(SubSizeT(SizeT(size), SizeT(HdrSize)), SizeT(8))

\* the 32-bit field at byte offset off of the header at byte p of bytes
\* (zero when the memory ends before it: HdrBytesRead decides the fault)
FieldAt(bytes, p, off) ==
    IF p + off + 4 <= Len(bytes)
    THEN Be32(<<bytes[p + off + 1], bytes[p + off + 2],
                bytes[p + off + 3], bytes[p + off + 4]>>)
    ELSE U32(0)

\* the fdt_header_t at byte p of bytes, its fields decoded by be32toh
HdrAt(bytes, p) ==
    [magic |-> FieldAt(bytes, p, 0),
     totalsize |-> FieldAt(bytes, p, 4),
     off_dt_struct |-> FieldAt(bytes, p, 8),
     off_dt_strings |-> FieldAt(bytes, p, 12),
     version |-> FieldAt(bytes, p, 20),
     last_comp_version |-> FieldAt(bytes, p, 24),
     boot_cpuid_phys |-> FieldAt(bytes, p, 28),
     size_dt_strings |-> FieldAt(bytes, p, 32),
     size_dt_struct |-> FieldAt(bytes, p, 36)]

\* the number of bytes, from image + pos on, one iteration of the loop reads
LocBytesRead(bytes, p) == HdrBytesRead(HdrAt(bytes, p), TRUE)

\* the loop condition pos < size - sizeof(fdt_header_t) - 8
LocLoopCond == LtSizeT(SizeT(lpos), LocBound(lsize))

\* the iteration at pos reads memory that is not mapped
LocFault ==
    /\ lpc = "loop" /\ LocLoopCond
    /\ lpos + LocBytesRead(limage, lpos) > Len(limage)
    /\ lpc' = "fault"
    /\ loob' = TRUE
    /\ UNCHANGED <<limage, lsize, lmax, lpos, lret, hvars, qvars, ovars>>

\* the iteration at pos ends in one of the three "continue"
LocSkip ==
    /\ lpc = "loop" /\ LocLoopCond
    /\ lpos + LocBytesRead(limage, lpos) <= Len(limage)
    /\ LET h == HdrAt(limage, lpos)
           totalsize == get_fdt_totalsize(h, TRUE)
       IN  \/ h.magic # FDT_MAGIC
           \/ totalsize <= 0
           \/ (lmax > 0 /\ totalsize > lmax)
    /\ lpos' = lpos + 1
    /\ loob' = (loob \/ lpos + LocBytesRead(limage, lpos) > lsize)
    /\ UNCHANGED <<limage, lsize, lmax, lpc, lret, hvars, qvars, ovars>>

\* the iteration at pos ends in "return (int)pos"
LocFound ==
    /\ lpc = "loop" /\ LocLoopCond
    /\ lpos + LocBytesRead(limage, lpos) <= Len(limage)
    /\ LET h == HdrAt(limage, lpos)
           totalsize == get_fdt_totalsize(h, TRUE)
       IN  /\ h.magic = FDT_MAGIC
           /\ totalsize > 0
           /\ ~(lmax > 0 /\ totalsize > lmax)
    /\ lpc' = "done"
    /\ lret' = lpos
    /\ loob' = (loob \/ lpos + LocBytesRead(limage, lpos) > lsize)
    /\ UNCHANGED <<limage, lsize, lmax, lpos, hvars, qvars, ovars>>

\* the loop condition fails: "return -1"
LocExit ==
    /\ lpc = "loop" /\ ~LocLoopCond
    /\ lpc' = "done"
    /\ lret' = -1
    /\ UNCHANGED <<limage, lsize, lmax, lpos, loob, hvars, qvars, ovars>>

find_fdt_offset == LocFault \/ LocSkip \/ LocFound \/ LocExit

(* Specification SpecLoc: find_fdt_offset on buffers of 0..MaxBufSize      *)
(* bytes, with or without a header image in them, followed in memory by     *)
(* 0, 8 or 48 mapped bytes that are not part of the buffer.                 *)

MaxBufSize == 52

\* the 40 bytes of a header in memory
HdrBytes(h) ==
    Word32(h.magic) \o Word32(h.totalsize) \o Word32(h.off_dt_struct)
    \o Word32(h.off_dt_strings) \o Word32(U32(0)) \o Word32(h.version)
    \o Word32(h.last_comp_version) \o Word32(h.boot_cpuid_phys)
    \o Word32(h.size_dt_strings) \o Word32(h.size_dt_struct)

GoodHdr ==
    [magic |-> FDT_MAGIC, totalsize |-> U32(168), off_dt_struct |-> U32(56),
     off_dt_strings |-> U32(120), version |-> U32(17),
     last_comp_version |-> U32(16), boot_cpuid_phys |-> U32(0),
     size_dt_strings |-> U32(8), size_dt_struct |-> U32(64)]

LocHeaders ==
    {GoodHdr, [GoodHdr EXCEPT !.version = U32(16)],
     [GoodHdr EXCEPT !.totalsize = U32(1000)]}

LocSizes == {0, 3, 10} \cup (46..MaxBufSize)

\* n bytes of memory: zero, except for the header bytes hb from byte hp on
LocMemory(n, hb, hp) ==
    [i \in 1..n |-> IF hp < i /\ i <= hp + Len(hb) THEN hb[i - hp] ELSE 0]

LocInit ==
    /\ lsize \in LocSizes
    /\ lmax \in {0, 200}
    /\ \E slack \in {0, 8, 48}, hp \in {0, 2, 9},
          hb \in {HdrBytes(h) : h \in LocHeaders} \cup {<<>>} :
            limage = LocMemory(lsize + slack, hb, hp)
    /\ lpos = 0 /\ lpc = "loop" /\ lret = 0 /\ loob = FALSE
    /\ HIdle /\ QIdle /\ OIdle

SpecLoc == LocInit /\ [][find_fdt_offset]_vars

\* C3: for every buffer of size < header size + 8, find_fdt_offset returns
\* not-found (-1) and reads no byte outside the buffer [0, size).
C3_SmallBufferNotFound ==
    (lpc # "idle" /\ lsize < HdrSize + 8) =>
        /\ ~loob
        /\ lpc # "fault"
        /\ (lpc = "done" => lret = -1)

-----------------------------------------------------------------------------
(* C strings.  A string argument is the sequence of its bytes without the   *)
(* terminating NUL; a string in memory is read up to its NUL.               *)

Slash == 47                            \* '/'
Star == 42                             \* '*'

\* s[i] of a C string s (0-based), the terminator included
CharAt(s, i) == IF i < Len(s) THEN s[i + 1] ELSE 0

\* strncmp(a, b, n) == 0
StrncmpEq(a, b, n) == \A k \in 0..(n - 1) : CharAt(a, k) = CharAt(b, k)

\* the string without its first n bytes (the pointer s + n)
Skip(s, n) == SubSeq(s, n + 1, Len(s))

\* byte i (0-based) of the words ws
ByteOf(ws, i) == ws[(i \div 4) + 1][(i % 4) + 1]

RECURSIVE CStrFrom(_, _, _)
\* the bytes from byte offset i up to the next NUL, appended to acc;
\* NullStr when the memory ends before a NUL
CStrFrom(ws, i, acc) ==
    IF i < 0 \/ i >= 4 * Len(ws) THEN NullStr
    ELSE IF ByteOf(ws, i) = 0 THEN acc
    ELSE CStrFrom(ws, i + 1, Append(acc, ByteOf(ws, i)))

\* the C string at byte offset i of the words ws (a node name)
NodeNameAt(ws, i) == CStrFrom(ws, i, <<>>)

RECURSIVE StrFrom(_, _, _)
StrFrom(bs, i, acc) ==
    IF i < 0 \/ i >= Len(bs) THEN NullStr
    ELSE IF bs[i + 1] = 0 THEN acc
    ELSE StrFrom(bs, i + 1, Append(acc, bs[i + 1]))

\* get_fdt_string: the C string at ctx->strings + str_offset
get_fdt_string(bs, str_offset) == StrFrom(bs, str_offset, <<>>)

-----------------------------------------------------------------------------
(* get_path_depth                                                           *)

\* the path after "if (tp[0] == '/') { tp++; tplen--; }"
StripLead(p) == IF CharAt(p, 0) = Slash THEN Skip(p, 1) ELSE p

\* tplen after "if (tp[tplen - 1] == '/') tplen--;", for tplen > 0
StripTrailLen(tp) ==
    IF CharAt(tp, Len(tp) - 1) = Slash THEN Len(tp) - 1 ELSE Len(tp)

RECURSIVE PathDepthLoop(_, _, _, _, _)
\* the for loop of get_path_depth from index i on; dn is the offset in tp
\* of the current segment
PathDepthLoop(tp, tplen, i, dn, d) ==
    IF i > tplen THEN d
    ELSE IF CharAt(tp, i) = Slash \/ i = tplen
         THEN IF i - dn = 0 THEN -12
              ELSE PathDepthLoop(tp, tplen, i + 1, i + 1, d + 1)
         ELSE PathDepthLoop(tp, tplen, i + 1, dn, d)

get_path_depth(p) ==
    LET tp == StripLead(p)
    IN  IF Len(tp) = 0 THEN 0
        ELSE IF StripTrailLen(tp) = 0 THEN 0
        ELSE PathDepthLoop(tp, StripTrailLen(tp), 0, 0, 0)

-----------------------------------------------------------------------------
(* check_search_target                                                      *)

\* the name ctx->path[d] points to (NullStr for a NULL slot)
PathName(ws, stack, d) ==
    IF d \in DOMAIN stack /\ stack[d] >= 0 THEN NodeNameAt(ws, stack[d])
    ELSE NullStr

\* SegmentCheck without "strlen(ctx->path[depth]) != dnlen" for a segment
\* that does not end in '*'
SegmentCheck_NoLength(dn, dnlen, nm) ==
    IF CharAt(dn, dnlen - 1) = Star
    THEN IF Len(nm) < dnlen - 1 THEN -6
         ELSE IF ~StrncmpEq(dn, nm, dnlen - 1) THEN -7
         ELSE 0
    ELSE IF ~StrncmpEq(dn, nm, dnlen) THEN -3
         ELSE 0

\* one segment dn[0..dnlen-1] against the node name nm: 0, or the error code
SegmentCheck(dn, dnlen, nm) ==
    IF CharAt(dn, dnlen - 1) = Star
    THEN IF Len(nm) < dnlen - 1 THEN -6
         ELSE IF ~StrncmpEq(dn, nm, dnlen - 1) THEN -7
         ELSE 0
    ELSE IF Len(nm) # dnlen THEN -2
         ELSE IF ~StrncmpEq(dn, nm, dnlen) THEN -3
         ELSE 0

RECURSIVE SearchLoop(_, _, _, _, _, _, _)
\* the for loop of check_search_target from index i on
SearchLoop(ws, stack, tp, tplen, i, dn, d) ==
    IF i > tplen THEN 0
    ELSE IF CharAt(tp, i) = Slash \/ i = tplen
         THEN IF i - dn = 0 THEN -12
              ELSE LET c == SegmentCheck(Skip(tp, dn), i - dn,
                                         PathName(ws, stack, d))
                   IN  IF c # 0 THEN c
                       ELSE SearchLoop(ws, stack, tp, tplen, i + 1, i + 1, d + 1)
         ELSE SearchLoop(ws, stack, tp, tplen, i + 1, dn, d)

\* check_search_target without "if (ctx->depth != ctx->target_depth) return -1"
check_search_target_NoDepthTest(ws, stack, d, tdepth, tpath, tname, pname) ==
    IF tname = NullStr THEN -1
    ELSE IF pname # tname THEN -1
    ELSE IF tdepth <= 0 THEN -1
    ELSE LET tp == StripLead(tpath)
         IN  IF Len(tp) = 0 THEN -10
             ELSE IF StripTrailLen(tp) = 0 THEN -11
             ELSE SearchLoop(ws, stack, tp, StripTrailLen(tp), 0, 0, 0)

\* check_search_target(ctx, prop): ws = the struct memory, stack = ctx->path,
\* d = ctx->depth, pname = the property's name from the strings block
check_search_target(ws, stack, d, tdepth, tpath, tname, pname) ==
    IF tname = NullStr THEN -1
    ELSE IF d # tdepth THEN -1
    ELSE IF pname # tname THEN -1
    ELSE IF tdepth <= 0 THEN -1
    ELSE LET tp == StripLead(tpath)
         IN  IF Len(tp) = 0 THEN -10
             ELSE IF StripTrailLen(tp) = 0 THEN -11
             ELSE SearchLoop(ws, stack, tp, StripTrailLen(tp), 0, 0, 0)

-----------------------------------------------------------------------------
(* The on-disk layout of the struct block (fdt.h): how the records of a     *)
(* tag stream are laid out as big-endian words.                             *)

BTok(nm) == [t |-> "B", name |-> nm, len |-> U32(0), nameoff |-> 0, data |-> <<>>]
ETok == [t |-> "E", name |-> <<>>, len |-> U32(0), nameoff |-> 0, data |-> <<>>]
NTok == [t |-> "N", name |-> <<>>, len |-> U32(0), nameoff |-> 0, data |-> <<>>]
XTok == [t |-> "X", name |-> <<>>, len |-> U32(0), nameoff |-> 0, data |-> <<>>]
BadTok == [t |-> "?", name |-> <<>>, len |-> U32(0), nameoff |-> 0, data |-> <<>>]
\* a property whose len field is len32 and whose data bytes are d
PTok(off, len32, d) ==
    [t |-> "P", name |-> <<>>, len |-> len32, nameoff |-> off, data |-> d]
\* a property whose len field is the length of its data
Prop(off, d) == PTok(off, U32(Len(d)), d)

Zeros(n) == [i \in 1..n |-> 0]

\* bytes, zero-padded to whole words, as words
ToWords(bs, nwords) ==
    LET padded == bs \o Zeros(4 * nwords - Len(bs))
    IN  [k \in 1..nwords |->
            <<padded[4 * k - 3], padded[4 * k - 2], padded[4 * k - 1], padded[4 * k]>>]

TagWord(n) == Word32(U32(n))

\* the words of one record
EncTok(tk) ==
    CASE tk.t = "B" -> <<TagWord(FDT_BEGIN_NODE)>>
                        \o ToWords(tk.name, (Len(tk.name) + 4) \div 4)
      [] tk.t = "E" -> <<TagWord(FDT_END_NODE)>>
      [] tk.t = "P" -> <<TagWord(FDT_PROP), Word32(tk.len), Word32(U32(tk.nameoff))>>
                        \o ToWords(tk.data, (Len(tk.data) + 3) \div 4)
      [] tk.t = "N" -> <<TagWord(FDT_NOP)>>
      [] tk.t = "X" -> <<TagWord(FDT_END)>>
      [] OTHER -> <<TagWord(7)>>

RECURSIVE Encode(_)
Encode(ts) == IF ts = <<>> THEN <<>> ELSE EncTok(Head(ts)) \o Encode(Tail(ts))

\* the word offset of record k of ts
TokOffset(ts, k) == Len(Encode(SubSeq(ts, 1, k - 1)))

\* the strings block used throughout: "x\0y\0"
NameX == <<120>>
NameY == <<121>>
StringsXY == <<120, 0, 121, 0>>

-----------------------------------------------------------------------------
(* Specification SpecMatch: check_search_target applied to a property       *)
(* visited at depth d under ancestors a[0..d-1], for patterns of up to      *)
(* MaxSegs segments.  target_depth is what get_path_depth gave for the      *)
(* pattern, as in get_fdt_prop.                                             *)

MaxMatchDepth == 2
MaxSegs == 3

NameEt == <<101, 116>>
NameEth == <<101, 116, 104>>
NameEth0 == <<101, 116, 104, 48>>
NameEthernet == <<101, 116, 104, 101, 114, 110, 101, 116>>
AncNames == {NameEt, NameEth, NameEth0, NameEthernet}

SegEthStar == <<101, 116, 104, 42>>
SegStar == <<42>>
MatchSegs == {SegEthStar, NameEth, SegStar}

SeqsUpTo(S, n) == UNION {[1..k -> S] : k \in 0..n}

RECURSIVE JoinSegs(_)
JoinSegs(segs) ==
    IF Len(segs) = 0 THEN <<>>
    ELSE IF Len(segs) = 1 THEN segs[1]
    ELSE segs[1] \o <<Slash>> \o JoinSegs(Tail(segs))

MatchPatterns ==
    {lead \o JoinSegs(segs) \o trail :
        lead \in {<<>>, <<Slash>>}, trail \in {<<>>, <<Slash>>},
        segs \in SeqsUpTo(MatchSegs, MaxSegs)}

MatchInit ==
    /\ \E anc \in SeqsUpTo(AncNames, MaxMatchDepth), off \in {0, 2} :
          /\ toks = [i \in 1..Len(anc) |-> BTok(anc[i])] \o <<Prop(off, <<>>)>>
          /\ depth = Len(anc)
    /\ mem = Encode(toks)
    /\ strings = StringsXY
    /\ path = [i \in 0..MAX_FDT_DEPTH |->
                 IF i < depth THEN 4 * (TokOffset(toks, i + 1) + 1) ELSE -1]
    /\ pos = TokOffset(toks, depth + 1)
    /\ target_path \in {p \in MatchPatterns : get_path_depth(p) >= 0}
    /\ target_depth = get_path_depth(target_path)
    /\ target_name \in {NameX, NullStr}
    /\ arg_path = target_path /\ arg_name = target_name
    /\ pc = "match"
    /\ tree_size = 4 * Len(mem) /\ show_tree = FALSE
    /\ res = -1 /\ ret = -1 /\ frames = 1 /\ mret = 1
    /\ maxRead = -1 /\ nvisited = 0 /\ nbegin = 0 /\ maxWrite = depth - 1
    /\ errkind = "none"
    /\ HIdle /\ LIdle

\* the nameoff field of the property at word offset p (-1 when it is beyond
\* 2^31 - 2, which no strings block of the model reaches)
PropNameOff(ws, p) ==
    IF Lt32(Be32(ws[p + 3]), INT_MAX) THEN ToInt(Be32(ws[p + 3])) ELSE -1

\* check_search_target(ctx, prop) for the property at ctx->pos
MatchApply ==
    /\ pc = "match"
    /\ mret' = check_search_target(mem, path, depth, target_depth, target_path,
                                 target_name,
                                 get_fdt_string(strings, PropNameOff(mem, pos)))
    /\ pc' = "matched"
    /\ UNCHANGED <<mem, strings, arg_path, arg_name, pos, depth, path,
                   target_depth, target_path, target_name, tree_size,
                   show_tree, res, ret, frames, hvars, lvars, ovars>>

MatchNext == MatchApply

SpecMatch == MatchInit /\ [][MatchNext]_vars

(* The matcher as the claim states it, computed from the laid-out records   *)
(* and by splitting the pattern, not by the code's loop.                    *)

RECURSIVE RefSplit(_, _)
\* s split on '/', cur being the segment under construction
RefSplit(s, cur) ==
    IF s = <<>> THEN <<cur>>
    ELSE IF Head(s) = Slash THEN <<cur>> \o RefSplit(Tail(s), <<>>)
    ELSE RefSplit(Tail(s), Append(cur, Head(s)))

\* the pattern without one leading and one trailing '/'
RefTrim(p) ==
    LET q == IF Len(p) > 0 /\ p[1] = Slash THEN Tail(p) ELSE p
    IN  IF Len(q) > 0 /\ q[Len(q)] = Slash THEN SubSeq(q, 1, Len(q) - 1) ELSE q

RefSegs(p) == IF RefTrim(p) = <<>> THEN <<>> ELSE RefSplit(RefTrim(p), <<>>)

\* a pattern of at least one segment, none of them empty
WellFormedPattern(p) ==
    /\ p # NullStr
    /\ Len(RefSegs(p)) >= 1
    /\ \A i \in 1..Len(RefSegs(p)) : RefSegs(p)[i] # <<>>

RefSegMatch(seg, nm) ==
    IF seg[Len(seg)] = Star
    THEN /\ Len(nm) >= Len(seg) - 1
         /\ SubSeq(nm, 1, Len(seg) - 1) = SubSeq(seg, 1, Len(seg) - 1)
    ELSE nm = seg

\* the ancestors' names match the pattern segment by segment
RefChainMatch(anc, p) ==
    /\ Len(anc) = Len(RefSegs(p))
    /\ \A i \in 1..Len(anc) : RefSegMatch(RefSegs(p)[i], anc[i])

\* the names of the BEGIN_NODE records of ts, in order
RECURSIVE NodeNames(_)
NodeNames(ts) ==
    IF ts = <<>> THEN <<>>
    ELSE IF Head(ts).t = "B" THEN <<Head(ts).name>> \o NodeNames(Tail(ts))
    ELSE NodeNames(Tail(ts))

\* the name in the strings block "x\0y\0" a nameoff of 0 or 2 stands for
RefPropName(tk) == IF tk.nameoff = 0 THEN NameX ELSE NameY

\* C2: for a well-formed pattern of k >= 1 segments and a property visited
\* at depth d under ancestors a[0..d-1], check_search_target reports a match
\* iff d = k, the property name equals the target name, and every segment
\* matches its ancestor (prefix match for a segment ending in '*', equality
\* otherwise).
C2_MatcherIffSegmentsMatch ==
    (pc = "matched" /\ WellFormedPattern(target_path)) =>
        ((mret = 0) <=>
            /\ target_name # NullStr
            /\ RefPropName(toks[Len(toks)]) = target_name
            /\ RefChainMatch(NodeNames(toks), target_path))

\* a property at depth 2 matched by a two-segment pattern with a wildcard
\* whose ancestor is longer than the prefix
C2_Witness ==
    /\ pc = "matched" /\ mret = 0 /\ depth = 2
    /\ NodeNames(toks) = <<NameEthernet, NameEth>>
    /\ target_path = <<Slash>> \o SegEthStar \o <<Slash>> \o NameEth

-----------------------------------------------------------------------------
(* get_fdt_prop, up to its call of enum_fdt_nodes                           *)

Max(a, b) == IF a >= b THEN a ELSE b

\* init_fdt_ctx(&ctx, img) == 0: the header passes the strict validation
init_fdt_ctx == get_fdt_totalsize(hdr, TRUE) > 0

\* ctx.target_depth after "if (path) { ... }" (0 from the memset otherwise)
StartTargetDepth == IF arg_path # NullStr THEN get_path_depth(arg_path) ELSE 0

\* get_fdt_prop gets past the argument checks and reaches "ctx.pos = ctx.tree"
StartArgsOk ==
    /\ init_fdt_ctx
    /\ ~(arg_name = NullStr /\ arg_path = NullStr)
    /\ StartTargetDepth >= 0

\* the context fields get_fdt_prop has set when it reaches the stream
StartCtx ==
    /\ tree_size' = ToInt(hdr.size_dt_struct)
    /\ show_tree' = (arg_name = NullStr)
    /\ target_depth' = StartTargetDepth
    /\ target_path' = arg_path
    /\ target_name' = IF arg_path # NullStr THEN arg_name ELSE NullStr
    /\ pos' = 0

\* get_fdt_prop returns NULL before it reads the stream: the header is
\* rejected, both arguments are NULL, or get_path_depth reports an error
QStartReject ==
    /\ pc = "start"
    /\ ~StartArgsOk
    /\ tree_size' = IF init_fdt_ctx THEN ToInt(hdr.size_dt_struct) ELSE 0
    /\ show_tree' = (init_fdt_ctx /\ arg_name = NullStr)
    /\ target_depth' = IF init_fdt_ctx /\ arg_path # NullStr
                       THEN get_path_depth(arg_path) ELSE 0
    /\ errkind' = IF ~init_fdt_ctx THEN "hdr"
                  ELSE IF arg_path = NullStr THEN "noargs" ELSE "path"
    /\ ret' = -1
    /\ pc' = "done"
    /\ UNCHANGED <<mem, strings, arg_path, arg_name, pos, depth, path,
                   target_path, target_name, res, frames, mret,
                   maxRead, nvisited, nbegin, maxWrite, toks, hvars, lvars>>

\* the first word is not FDT_BEGIN_NODE, or the word after it is not zero
QStartNoRoot ==
    /\ pc = "start"
    /\ StartArgsOk
    /\ Len(mem) >= 1
    /\ \/ Be32(mem[1]) # U32(FDT_BEGIN_NODE)
       \/ (Len(mem) >= 2 /\ mem[2] # <<0, 0, 0, 0>>)
    /\ StartCtx
    /\ maxRead' = IF Be32(mem[1]) # U32(FDT_BEGIN_NODE) THEN 0 ELSE 1
    /\ errkind' = "noroot"
    /\ ret' = -1
    /\ pc' = "done"
    /\ UNCHANGED <<mem, strings, arg_path, arg_name, depth, path, res, frames,
                   mret, nvisited, nbegin, maxWrite, toks, hvars, lvars>>

\* ctx.pos[0] or ctx.pos[1] is not mapped memory
QStartFault ==
    /\ pc = "start"
    /\ StartArgsOk
    /\ \/ Len(mem) = 0
       \/ (Len(mem) = 1 /\ Be32(mem[1]) = U32(FDT_BEGIN_NODE))
    /\ StartCtx
    /\ maxRead' = Len(mem)
    /\ errkind' = "fault"
    /\ pc' = "fault"
    /\ UNCHANGED <<mem, strings, arg_path, arg_name, depth, path, res, ret,
                   frames, mret, nvisited, nbegin, maxWrite, toks, hvars, lvars>>

\* "ctx.res = NULL; ctx.depth = -1; enum_fdt_nodes(&ctx);"
QStartWalk ==
    /\ pc = "start"
    /\ StartArgsOk
    /\ Len(mem) >= 2
    /\ Be32(mem[1]) = U32(FDT_BEGIN_NODE)
    /\ mem[2] = <<0, 0, 0, 0>>
    /\ StartCtx
    /\ maxRead' = 1
    /\ res' = -1
    /\ depth' = -1
    /\ frames' = 1
    /\ pc' = "walk"
    /\ UNCHANGED <<mem, strings, arg_path, arg_name, path, ret, mret,
                   nvisited, nbegin, maxWrite, errkind, toks, hvars, lvars>>

\* enum_fdt_nodes has returned NULL through every active invocation:
\* "if (name && ctx.res) return ctx.res; return NULL;"
QReturn ==
    /\ pc = "unwind"
    /\ frames' = 0
    /\ ret' = IF arg_name # NullStr /\ res # -1 THEN res ELSE -1
    /\ pc' = "done"
    /\ UNCHANGED <<mem, strings, arg_path, arg_name, pos, depth, path,
                   target_depth, target_path, target_name, tree_size,
                   show_tree, res, mret, ovars, hvars, lvars>>

-----------------------------------------------------------------------------
(* enum_fdt_nodes: one action per case of the switch and per way out of it. *)
(* The function calls itself on FDT_BEGIN_NODE and returns only NULL, which *)
(* every caller passes on at once: "frames" counts the active invocations,  *)
(* and pc = "unwind" stands for the chain of returns.                       *)

inputs == <<mem, strings, arg_path, arg_name, toks, hvars, lvars>>
target == <<target_depth, target_path, target_name, tree_size, show_tree>>

\* "tag = be32toh(*ctx->pos)" reads mapped memory and gives n
TagIs(n) == pos < Len(mem) /\ Be32(mem[pos + 1]) = U32(n)

\* the walk ends: enum_fdt_nodes returns NULL
Unwind(kind) ==
    /\ pc' = "unwind"
    /\ errkind' = kind

(* ---- FDT_BEGIN_NODE ---- *)

\* node->name, as a byte offset from ctx->tree
BeginNamePtr == 4 * (pos + 1)
BeginNameMapped == pos + 1 < Len(mem)
BeginName == NodeNameAt(mem, BeginNamePtr)

\* the name tests: a root with a name, or a node without one
BeginBadName ==
    IF depth < 0 THEN ByteOf(mem, BeginNamePtr) # 0
    ELSE ByteOf(mem, BeginNamePtr) = 0

\* ctx->depth after "ctx->depth = 0" or "ctx->path[ctx->depth++] = node->name"
BeginDepth == IF depth < 0 THEN 0 ELSE depth + 1

\* the depth test written "ctx->depth > MAX_FDT_DEPTH"
DepthCapReached_OffByOne(d) == d > MAX_FDT_DEPTH

\* "if (ctx->depth == MAX_FDT_DEPTH)"
DepthCapReached(d) == d = MAX_FDT_DEPTH

\* the word-count "1 + (strlen(node->name) + 4) / 4"
BeginAdvance(nm) == 1 + ((Len(nm) + 4) \div 4)

\* the assignments of the BEGIN_NODE case to ctx->depth and ctx->path
BeginPush ==
    /\ depth' = BeginDepth
    /\ path' = IF depth < 0 THEN path ELSE [path EXCEPT ![depth] = BeginNamePtr]
    /\ maxWrite' = IF depth < 0 THEN maxWrite ELSE Max(maxWrite, depth)

WalkBeginNodeBadName ==
    /\ pc = "walk"
    /\ TagIs(FDT_BEGIN_NODE) /\ BeginNameMapped
    /\ BeginBadName
    /\ Unwind(IF depth < 0 THEN "rootname" ELSE "emptyname")
    /\ maxRead' = Max(maxRead, pos + 1)
    /\ nvisited' = nvisited + 1
    /\ nbegin' = nbegin + 1
    /\ UNCHANGED <<pos, depth, path, res, ret, frames, mret, maxWrite,
                   inputs, target>>

WalkBeginNodeTooDeep ==
    /\ pc = "walk"
    /\ TagIs(FDT_BEGIN_NODE) /\ BeginNameMapped
    /\ ~BeginBadName
    /\ DepthCapReached(BeginDepth)
    /\ show_tree => BeginName # NullStr
    /\ BeginPush
    /\ Unwind("deep")
    /\ maxRead' = Max(maxRead, IF show_tree THEN pos + 1 + (Len(BeginName) \div 4)
                               ELSE pos + 1)
    /\ nvisited' = nvisited + 1
    /\ nbegin' = nbegin + 1
    /\ UNCHANGED <<pos, res, ret, frames, mret, inputs, target>>

\* "ctx->pos += 1 + (strlen(node->name) + 4) / 4; pos = enum_fdt_nodes(ctx);"
WalkBeginNode ==
    /\ pc = "walk"
    /\ TagIs(FDT_BEGIN_NODE) /\ BeginNameMapped
    /\ ~BeginBadName
    /\ ~DepthCapReached(BeginDepth)
    /\ BeginName # NullStr
    /\ BeginPush
    /\ pos' = pos + BeginAdvance(BeginName)
    /\ frames' = frames + 1
    /\ maxRead' = Max(maxRead, pos + 1 + (Len(BeginName) \div 4))
    /\ nvisited' = nvisited + 1
    /\ nbegin' = nbegin + 1
    /\ UNCHANGED <<pc, res, ret, mret, errkind, inputs, target>>

(* ---- FDT_PROP ---- *)

PropMapped == pos + 2 < Len(mem)
PropSize == Be32(mem[pos + 2])
PropName == get_fdt_string(strings, PropNameOff(mem, pos))

\* "if (size >= INT_MAX)"
PropTooBig == ~Lt32(PropSize, INT_MAX)

\* (size + 3) / 4 for size < INT_MAX (no wrap: size + 3 < 2^32), written so
\* that no intermediate value exceeds 2^31 - 1
SizeWords(size32) ==
    (ToInt(size32) \div 4) + (IF ToInt(size32) % 4 = 0 THEN 0 ELSE 1)

\* PropAdvance without "ctx->pos += 3"
PropAdvance_DataOnly(size32) == SizeWords(size32)

\* the words "ctx->pos += 3; ctx->pos += (size + 3) / 4;" add up to
PropAdvance(size32) == 3 + SizeWords(size32)

PropCheck ==
    check_search_target(mem, path, depth, target_depth, target_path,
                      target_name, PropName)

RECURSIVE ScanPrintable(_, _, _, _)
\* the loop of show_fdt_prop from index i on: the index of the first byte
\* below 0x20 or above 0x7E among data[i..limit-1], limit when there is
\* none, -1 when the memory ends first
ScanPrintable(ws, base, i, limit) ==
    IF i >= limit THEN limit
    ELSE IF base + i >= 4 * Len(ws) THEN -1
    ELSE IF ByteOf(ws, base + i) < 32 \/ ByteOf(ws, base + i) > 126 THEN i
    ELSE ScanPrintable(ws, base, i + 1, limit)

\* show_fdt_prop: the offset (in bytes from prop->data) of the last data byte
\* it reads, -1 when it reads none, -2 when it reads unmapped memory
show_fdt_prop(ws, p, size32) ==
    LET base == 4 * (p + 3)
        n == ToInt(size32)
        stop == ScanPrintable(ws, base, 0, n - 1)
    IN  IF n - 1 > 0 /\ stop = -1 THEN -2
        ELSE IF n - 1 > 0 /\ stop < n - 1 THEN stop
        ELSE IF n > 0
             THEN IF NodeNameAt(ws, base) = NullStr THEN -2
                  ELSE Len(NodeNameAt(ws, base))
             ELSE -1

\* the highest word a non-faulting PROP case reads
PropMaxRead ==
    IF show_tree /\ ~PropTooBig /\ show_fdt_prop(mem, pos, PropSize) >= 0
    THEN pos + 3 + (show_fdt_prop(mem, pos, PropSize) \div 4)
    ELSE pos + 2

\* the property's name is dereferenced (printed or compared)
PropNameUsed ==
    \/ show_tree
    \/ (target_name # NullStr /\ depth = target_depth /\ ~PropTooBig)

\* the PROP case reads unmapped memory
PropFaults ==
    \/ ~PropMapped
    \/ (PropNameUsed /\ PropName = NullStr)
    \/ (show_tree /\ ~PropTooBig /\ show_fdt_prop(mem, pos, PropSize) = -2)

WalkPropTooBig ==
    /\ pc = "walk"
    /\ TagIs(FDT_PROP) /\ ~PropFaults
    /\ PropTooBig
    /\ Unwind("propsize")
    /\ maxRead' = Max(maxRead, PropMaxRead)
    /\ nvisited' = nvisited + 1
    /\ UNCHANGED <<pos, depth, path, res, ret, frames, mret, nbegin, maxWrite,
                   inputs, target>>

\* "if (check_search_target(ctx, prop) == 0) { ctx->res = prop; return NULL; }"
WalkPropMatch ==
    /\ pc = "walk"
    /\ TagIs(FDT_PROP) /\ ~PropFaults
    /\ ~PropTooBig
    /\ PropCheck = 0
    /\ mret' = PropCheck
    /\ res' = pos
    /\ Unwind("none")
    /\ maxRead' = Max(maxRead, PropMaxRead)
    /\ nvisited' = nvisited + 1
    /\ UNCHANGED <<pos, depth, path, ret, frames, nbegin, maxWrite,
                   inputs, target>>

\* "ctx->pos += 3; ctx->pos += (size + 3) / 4; continue;"
WalkPropSkip ==
    /\ pc = "walk"
    /\ TagIs(FDT_PROP) /\ ~PropFaults
    /\ ~PropTooBig
    /\ PropCheck # 0
    /\ mret' = PropCheck
    /\ pos' = pos + PropAdvance(PropSize)
    /\ maxRead' = Max(maxRead, PropMaxRead)
    /\ nvisited' = nvisited + 1
    /\ UNCHANGED <<pc, depth, path, res, ret, frames, nbegin, maxWrite,
                   errkind, inputs, target>>

(* ---- FDT_NOP, FDT_END_NODE, FDT_END, default ---- *)

WalkNop ==
    /\ pc = "walk"
    /\ TagIs(FDT_NOP)
    /\ pos' = pos + 1
    /\ maxRead' = Max(maxRead, pos)
    /\ nvisited' = nvisited + 1
    /\ UNCHANGED <<pc, depth, path, res, ret, frames, mret, nbegin, maxWrite,
                   errkind, inputs, target>>

\* EndNodeDepth without the decrement
EndNodeDepth_NoPop(d) == d

\* "if (ctx->depth > 0) ctx->depth--;"
EndNodeDepth(d) == IF d > 0 THEN d - 1 ELSE d

\* the case does not return: the loop goes on in the same invocation
WalkEndNode ==
    /\ pc = "walk"
    /\ TagIs(FDT_END_NODE)
    /\ depth' = EndNodeDepth(depth)
    /\ pos' = pos + 1
    /\ maxRead' = Max(maxRead, pos)
    /\ nvisited' = nvisited + 1
    /\ UNCHANGED <<pc, path, res, ret, frames, mret, nbegin, maxWrite,
                   errkind, inputs, target>>

WalkEnd ==
    /\ pc = "walk"
    /\ TagIs(FDT_END)
    /\ Unwind("none")
    /\ maxRead' = Max(maxRead, pos)
    /\ nvisited' = nvisited + 1
    /\ UNCHANGED <<pos, depth, path, res, ret, frames, mret, nbegin, maxWrite,
                   inputs, target>>

KnownTags == {FDT_BEGIN_NODE, FDT_END_NODE, FDT_PROP, FDT_NOP, FDT_END}

WalkBadTag ==
    /\ pc = "walk"
    /\ pos < Len(mem)
    /\ \A n \in KnownTags : Be32(mem[pos + 1]) # U32(n)
    /\ Unwind("tag")
    /\ maxRead' = Max(maxRead, pos)
    /\ nvisited' = nvisited + 1
    /\ UNCHANGED <<pos, depth, path, res, ret, frames, mret, nbegin, maxWrite,
                   inputs, target>>

(* ---- reads of memory that is not mapped, and strlen(NULL) ---- *)

\* the BEGIN_NODE case reads unmapped memory: the first byte of the name, or
\* the bytes strlen (or the printing of the path) runs over
BeginFaults ==
    \/ ~BeginNameMapped
    \/ /\ ~BeginBadName
       /\ BeginName = NullStr
       /\ (show_tree \/ ~DepthCapReached(BeginDepth))

\* check_search_target starts with strlen(ctx->target_path); target_path is
\* NULL when get_fdt_prop was given a name and no path.  The behaviour is
\* undefined: the process may stop here (this action), or the length is
\* never used and the call returns -1 (WalkPropSkip).
PropNullPath == ~PropFaults /\ ~PropTooBig /\ target_path = NullStr

WalkFault ==
    /\ pc = "walk"
    /\ \/ pos >= Len(mem)
       \/ (TagIs(FDT_BEGIN_NODE) /\ BeginFaults)
       \/ (TagIs(FDT_PROP) /\ PropFaults)
       \/ (TagIs(FDT_PROP) /\ PropMapped /\ PropNullPath)
    /\ pc' = "fault"
    /\ errkind' = "fault"
    /\ maxRead' = Max(maxRead, Len(mem))
    /\ nvisited' = nvisited + 1
    /\ UNCHANGED <<pos, depth, path, res, ret, frames, mret, nbegin, maxWrite,
                   inputs, target>>

enum_fdt_nodes ==
    \/ WalkBeginNode \/ WalkBeginNodeBadName \/ WalkBeginNodeTooDeep
    \/ WalkPropSkip \/ WalkPropMatch \/ WalkPropTooBig
    \/ WalkNop \/ WalkEndNode \/ WalkEnd \/ WalkBadTag \/ WalkFault

get_fdt_prop == QStartReject \/ QStartNoRoot \/ QStartFault \/ QStartWalk \/ enum_fdt_nodes \/ QReturn

-----------------------------------------------------------------------------
(* Specification Spec: get_fdt_prop on blobs whose struct block holds       *)
(*   - a well-formed tree of up to MaxItems nodes and properties,           *)
(*   - the root followed by any MaxRaw records (unbalanced, truncated,      *)
(*     oversized or unknown ones included),                                 *)
(*   - chains of MaxChain-3 .. MaxChain nested nodes, closed or left open,  *)
(*   - MaxWide sibling nodes,                                               *)
(* followed in memory by nothing or by one more word.                       *)

MaxItems == 3
MaxRaw == 3
MaxChain == 33
MaxWide == 33

NameA == <<97>>
NameAB == <<97, 98>>
Root == BTok(<<>>)
PropX == Prop(0, <<>>)                    \* "x", no data
PropY == Prop(2, <<104, 105, 0>>)         \* "y" = "hi"

RECURSIVE Forest(_)
\* the balanced record sequences of at most k nodes and properties
Forest(k) ==
    IF k = 0 THEN {<<>>}
    ELSE Forest(k - 1)
         \cup {<<l>> \o r : l \in {PropX, PropY}, r \in Forest(k - 1)}
         \cup UNION {{<<BTok(nm)>> \o inner \o <<ETok>> \o rest :
                        nm \in {NameA, NameAB},
                        inner \in Forest(i), rest \in Forest(k - 1 - i)} :
                     i \in 0..(k - 1)}

TreeStreams == {<<Root>> \o f \o <<ETok, XTok>> : f \in Forest(MaxItems)}

RawToks ==
    {BTok(NameA), BTok(<<>>), ETok, PropX, PTok(0, U32(8), <<>>),
     PTok(0, INT_MAX, <<>>), NTok, XTok, BadTok}

RawStreams == {<<Root>> \o r : r \in SeqsUpTo(RawToks, MaxRaw)}

NoRootStreams == {<<>>, <<XTok>>, <<BTok(NameA), ETok, XTok>>}

Rep(tk, n) == [i \in 1..n |-> tk]

ChainLengths == (MaxChain - 3)..MaxChain

\* k nested nodes "a", the property "x" in the outermost one after the
\* inner ones are closed
DeepStreams ==
    {<<Root>> \o Rep(BTok(NameA), k) \o Rep(ETok, k - 1)
        \o <<PropX, ETok, ETok, XTok>> : k \in ChainLengths}

\* the root and k nested nodes, none of them closed
OpenChainStreams == {<<Root>> \o Rep(BTok(NameA), k) : k \in ChainLengths}

RECURSIVE Siblings(_)
Siblings(n) == IF n = 0 THEN <<>> ELSE <<BTok(NameA), ETok>> \o Siblings(n - 1)

WideStreams == {<<Root>> \o Siblings(MaxWide) \o <<PropX, ETok, XTok>>}

PathA == <<97>>
QPaths ==
    {<<>>, <<Slash>>, <<Slash, Slash>>, PathA, <<Slash, 97, Slash>>,
     <<97, Star>>, <<97, Slash, 97, 98>>}
PathEmptySeg == <<97, Slash, Slash, 97>>  \* "a//a"

\* <<path, name>>: a lookup of "x" under each path and under no path, the
\* diagnostic walk (no name), and no argument at all
TreeArgs ==
    {<<p, NameX>> : p \in QPaths \cup {NullStr}}
    \cup {<<PathA, NullStr>>, <<NullStr, NullStr>>}

\* the header of a blob whose struct block holds n bytes: strings block at
\* 44, struct block at 48
QueryHdr(n) ==
    [magic |-> FDT_MAGIC, totalsize |-> U32(Max(168, 48 + n)),
     off_dt_struct |-> U32(48), off_dt_strings |-> U32(44),
     version |-> U32(17), last_comp_version |-> U32(16),
     boot_cpuid_phys |-> U32(0), size_dt_strings |-> U32(4),
     size_dt_struct |-> U32(n)]

\* the streams, each with the arguments and the memory after the block it
\* is queried with
QInputs ==
    \/ /\ toks \in TreeStreams
       /\ \E a \in TreeArgs : arg_path = a[1] /\ arg_name = a[2]
       /\ mem = Encode(toks)
       /\ hdr = QueryHdr(4 * Len(mem))
    \/ /\ toks \in RawStreams \cup NoRootStreams
       /\ arg_path = PathA
       /\ arg_name = NameX
       /\ mem \in {Encode(toks), Encode(toks) \o <<TagWord(FDT_END)>>}
       /\ hdr = QueryHdr(4 * Len(Encode(toks)))
    \/ /\ toks \in DeepStreams \cup OpenChainStreams \cup WideStreams
       /\ arg_path \in {PathA, PathEmptySeg}
       /\ arg_name = NameX
       /\ mem = Encode(toks)
       /\ hdr \in {QueryHdr(4 * Len(mem)),
                   [QueryHdr(4 * Len(mem)) EXCEPT !.version = U32(16)]}

QInit ==
    /\ QInputs
    /\ strings = StringsXY
    /\ pc = "start" /\ pos = 0 /\ depth = 0
    /\ path = [i \in 0..MAX_FDT_DEPTH |-> -1]
    /\ target_depth = 0 /\ target_path = NullStr /\ target_name = NullStr
    /\ tree_size = 0 /\ show_tree = FALSE
    /\ res = -1 /\ ret = -1 /\ frames = 0 /\ mret = 1
    /\ maxRead = -1 /\ nvisited = 0 /\ nbegin = 0 /\ maxWrite = -1
    /\ errkind = "none"
    /\ hcheck = "none" /\ hret = 0
    /\ LIdle

Init == QInit
Next == get_fdt_prop
Spec == Init /\ [][Next]_vars

-----------------------------------------------------------------------------
(* The tree a record sequence encodes, read off the records themselves.     *)

RECURSIVE RefOpenFrom(_, _, _, _)
RefOpenFrom(ts, i, k, open) ==
    IF i >= k THEN open
    ELSE IF ts[i].t = "B" THEN RefOpenFrom(ts, i + 1, k, Append(open, i))
    ELSE IF ts[i].t = "E" /\ open # <<>>
         THEN RefOpenFrom(ts, i + 1, k, SubSeq(open, 1, Len(open) - 1))
    ELSE RefOpenFrom(ts, i + 1, k, open)

\* the indices of the BEGIN_NODE records open before record k, outermost first
RefOpen(ts, k) == RefOpenFrom(ts, 1, k, <<>>)

\* the names of the non-root nodes that enclose record k
RefAncestors(ts, k) ==
    LET open == RefOpen(ts, k)
    IN  [i \in 1..(Len(open) - 1) |-> ts[open[i + 1]].name]

\* record k is a property that is a direct child of the root node
RefRootChild(ts, k) == ts[k].t = "P" /\ RefOpen(ts, k) = <<1>>

\* balanced BEGIN_NODE/END_NODE under a single unnamed root, every other
\* node named, every property with its data, terminated by END
WellFormedStream(ts) ==
    /\ Len(ts) >= 3
    /\ ts[1] = Root
    /\ ts[Len(ts)] = XTok
    /\ \A k \in 2..(Len(ts) - 1) :
         /\ ts[k].t \in {"B", "E", "P", "N"}
         /\ RefOpen(ts, k) # <<>>
         /\ ts[k].t = "B" => ts[k].name # <<>>
         /\ ts[k].t = "P" => (ts[k].len = U32(Len(ts[k].data))
                              /\ ts[k].nameoff \in {0, 2})
    /\ RefOpen(ts, Len(ts)) = <<>>

\* the largest number of non-root nodes open at once
RefMaxNesting(ts) ==
    LET ds == {Len(RefOpen(ts, k)) - 1 : k \in 1..(Len(ts) + 1)}
    IN  CHOOSE d \in ds : \A e \in ds : e <= d

\* the records that match the query: properties named nm under a root whose
\* chain of enclosing non-root nodes matches the path p
RefMatchesOf(ts, p, nm) ==
    {k \in 1..Len(ts) :
        /\ ts[k].t = "P"
        /\ RefPropName(ts[k]) = nm
        /\ RefOpen(ts, k) # <<>>
        /\ RefChainMatch(RefAncestors(ts, k), p)}

\* the word offset of the first matching record in stream order, -1 if none
RefFirstMatch(ts, p, nm) ==
    LET ms == RefMatchesOf(ts, p, nm)
    IN  IF ms = {} THEN -1
        ELSE TokOffset(ts, CHOOSE k \in ms : \A j \in ms : k <= j)

\* the record of ts that starts at word offset off, 0 if none does
RefTokAt(ts, off) ==
    LET ks == {k \in 1..Len(ts) : TokOffset(ts, k) = off}
    IN  IF ks = {} THEN 0 ELSE CHOOSE k \in ks : \A j \in ks : k <= j

QueryDone == pc = "done" /\ init_fdt_ctx

\* the case C1 is about: a validated blob, a well-formed stream inside the
\* struct block, a well-formed path, a name
C1_Case ==
    /\ QueryDone
    /\ WellFormedStream(toks)
    /\ tree_size = 4 * Len(Encode(toks))
    /\ WellFormedPattern(arg_path)
    /\ arg_name # NullStr

\* C1 as stated: for every well-formed stream, get_fdt_prop returns the first
\* matching record in stream order, and not-found exactly when none matches.
C1_FirstMatchAnyDepth ==
    C1_Case => ret = RefFirstMatch(toks, arg_path, arg_name)

\* C1, amended: the same, for the well-formed streams in which fewer than
\* MAX_FDT_DEPTH (32) non-root nodes are ever open at once.
C1_FirstMatchBelowDepthCap ==
    (C1_Case /\ RefMaxNesting(toks) < MAX_FDT_DEPTH) =>
        ret = RefFirstMatch(toks, arg_path, arg_name)

\* two matching records, the first of them returned
C1_Witness ==
    /\ C1_Case /\ RefMaxNesting(toks) < MAX_FDT_DEPTH
    /\ Cardinality(RefMatchesOf(toks, arg_path, arg_name)) >= 2
    /\ ret # -1
    /\ ret = RefFirstMatch(toks, arg_path, arg_name)

\* a path that splits into no segment at all
ZeroSegments(p) == p # NullStr /\ RefSegs(p) = <<>>

\* a path some segment of which is empty; "//" is one (the empty string
\* between its two slashes)
EmptySegmentPath(p) ==
    /\ p # NullStr
    /\ \/ p = <<Slash, Slash>>
       \/ \E i \in 1..Len(RefSegs(p)) : RefSegs(p)[i] = <<>>

\* C5: for "//" and every path with an empty segment the query fails up
\* front, before any tag is visited, with a pattern-syntax error, and the
\* outcome at the public boundary differs from the not-found outcome (NULL).
C5_EmptySegmentIsDistinctError ==
    (QueryDone /\ arg_name # NullStr /\ EmptySegmentPath(arg_path)) =>
        /\ errkind = "path"
        /\ nvisited = 0
        /\ maxRead = -1
        /\ ret # -1

\* C6: in every state of the walk the depth is at most 32 and every write to
\* ctx->path is at an index inside its 33 slots; the walk stops as a
\* structural error (not found) as soon as a BEGIN_NODE brings the depth to
\* 32, which for nested BEGIN_NODEs without END_NODE is the 33rd of them.
C6_DepthCapped ==
    /\ depth <= MAX_FDT_DEPTH
    /\ maxWrite < MAX_FDT_DEPTH + 1
    /\ (pc \in {"walk", "unwind", "done", "fault"} /\ depth = MAX_FDT_DEPTH) =>
          /\ pc \in {"unwind", "done"}
          /\ errkind = "deep"
          /\ res = -1 /\ ret = -1
    /\ (toks \in OpenChainStreams /\ errkind = "deep") => nbegin = MAX_FDT_DEPTH + 1
    /\ (toks \in OpenChainStreams /\ pc \in {"walk", "start"}) => nbegin <= MAX_FDT_DEPTH

\* 33 nested BEGIN_NODEs and no END_NODE: aborted at the 33rd
C6_Witness ==
    /\ pc = "done" /\ errkind = "deep" /\ ret = -1
    /\ toks = <<Root>> \o Rep(BTok(NameA), MAX_FDT_DEPTH)
    /\ nbegin = MAX_FDT_DEPTH + 1 /\ depth = MAX_FDT_DEPTH
    /\ maxWrite = MAX_FDT_DEPTH - 1

\* C7: the number of simultaneously active invocations of enum_fdt_nodes
\* never exceeds 33, whatever the number of nodes of the stream.
C7_RecursionBounded == frames <= MAX_FDT_DEPTH + 1

WalkOver == pc \in {"unwind", "done", "fault"}

\* the program runs on: a step that can be taken is taken
FairSpec == Spec /\ WF_vars(Next)

\* C8: each tag the walker processes either ends the walk or moves the read
\* position forward by at least one word, which it does only from a position
\* inside the memory; the walk is never stuck; so every query stops.
C8_EveryTagEndsOrAdvances ==
    /\ [][pc = "walk" =>
            (WalkOver' \/ (pos' >= pos + 1 /\ pos < Len(mem)))]_vars
    /\ []((pc \in {"start", "walk", "unwind"}) => ENABLED Next)
    /\ <>(pc \in {"done", "fault"})

\* a property whose len field runs past the memory has been stepped over and
\* the walk has ended
C8_Witness ==
    /\ pc = "fault" /\ pos > Len(mem) /\ nvisited >= 3

\* C9: for a validated blob every word the query reads from the stream lies
\* inside the declared struct block [off_dt_struct, off_dt_struct +
\* size_dt_struct).
C9_ReadsInsideStructBlock ==
    (pc \in {"start", "walk", "unwind", "done", "fault"} /\ init_fdt_ctx) =>
        4 * (maxRead + 1) <= ToInt(hdr.size_dt_struct)

\* C10: no query returns a property that is a direct child of the root node;
\* for a path of zero segments the result is not-found.
C10_NoRootLevelResult ==
    (pc = "done") =>
        /\ ret # -1 =>
             /\ RefTokAt(toks, ret) # 0
             /\ ~RefRootChild(toks, RefTokAt(toks, ret))
        /\ ZeroSegments(arg_path) => ret = -1

\* the root holds a property of the name asked for, the path has no segment,
\* the walk visited it and the result is not-found
C10_Witness ==
    /\ pc = "done" /\ errkind = "none" /\ ret = -1
    /\ arg_path = <<Slash>> /\ arg_name = NameX
    /\ toks[2] = PropX
    /\ nvisited >= 3

====
